---- MODULE Spec2Model ----
(***************************************************************************)
(* A model of first_cycling_api/old_stuff.py: the rider result row         *)
(* builder (RiderResult, RiderResultsTable), the race side-panel           *)
(* extraction (results.py fragment), the derived result flags (results     *)
(* dataframe fragment) and Rider.get_details.                              *)
(*                                                                         *)
(* Text is a sequence of one-character strings, so that split, strip,      *)
(* replace, substring tests and int()/float() are computed and not         *)
(* assumed.  A Python value that may be None is None == <<>> or            *)
(* Some(v) == <<v>>.  A Python object is the function from the names of    *)
(* the attributes that have been assigned to their values (vars(obj)).     *)
(***************************************************************************)
EXTENDS Integers, Sequences, FiniteSets, TLC

None == <<>>
Some(v) == <<v>>

NoAttrs == [a \in {} |-> None]

(***************************************************************************)
(* Text helpers (Python str methods used by the source).                   *)
(***************************************************************************)
DigitChars == <<"0", "1", "2", "3", "4", "5", "6", "7", "8", "9">>

IsDigit(c) == \E i \in 1..Len(DigitChars) : DigitChars[i] = c

DigitVal(c) == (CHOOSE i \in 1..Len(DigitChars) : DigitChars[i] = c) - 1

\* str.isnumeric(): non-empty and every character numeric
IsNumeric(s) == Len(s) > 0 /\ \A i \in 1..Len(s) : IsDigit(s[i])

\* int(s) for a numeric s
RECURSIVE IntOf(_)
IntOf(s) == IF s = <<>> THEN 0
            ELSE IntOf(SubSeq(s, 1, Len(s) - 1)) * 10 + DigitVal(s[Len(s)])

\* sub in s
StartsAt(s, sub, i) == /\ i + Len(sub) - 1 <= Len(s)
                       /\ \A k \in 1..Len(sub) : s[i + k - 1] = sub[k]

Contains(s, sub) == \E i \in 1..(Len(s) + 1) : StartsAt(s, sub, i)

\* s.endswith(sub)
EndsWith(s, sub) == Len(sub) <= Len(s) /\ StartsAt(s, sub, Len(s) - Len(sub) + 1)

\* s.split(sep) for a non-empty separator
RECURSIVE Split(_, _)
Split(s, sep) ==
    IF ~Contains(s, sep) THEN <<s>>
    ELSE LET i == CHOOSE j \in 1..Len(s) :
                      StartsAt(s, sep, j) /\ \A k \in 1..(j - 1) : ~StartsAt(s, sep, k)
         IN <<SubSeq(s, 1, i - 1)>> \o Split(SubSeq(s, i + Len(sep), Len(s)), sep)

IsSpace(c) == c \in {" ", "\n", "\t", "\r"}

\* s.strip()
RECURSIVE LStrip(_)
LStrip(s) == IF s # <<>> /\ IsSpace(s[1]) THEN LStrip(Tail(s)) ELSE s

RECURSIVE RStrip(_)
RStrip(s) == IF s # <<>> /\ IsSpace(s[Len(s)]) THEN RStrip(SubSeq(s, 1, Len(s) - 1)) ELSE s

Strip(s) == RStrip(LStrip(s))

\* s.replace(c, d) for a single character c and a text d
RECURSIVE Replace(_, _, _)
Replace(s, c, d) == IF s = <<>> THEN <<>>
                    ELSE (IF s[1] = c THEN d ELSE <<s[1]>>) \o Replace(Tail(s), c, d)

\* sep.join(parts)
RECURSIVE Join(_, _)
Join(parts, sep) == IF parts = <<>> THEN <<>>
                    ELSE IF Len(parts) = 1 THEN parts[1]
                    ELSE parts[1] \o sep \o Join(Tail(parts), sep)

\* the last element of a sequence (xs[-1])
Last(xs) == xs[Len(xs)]

(***************************************************************************)
(* Dates.  The date cell of a result row reads "yyyy-mm-dd", where the     *)
(* site writes 00 for an unknown month or day.                             *)
(***************************************************************************)
\* the years of the modelled date cells run from 2019 (no leap day) to LastYear
LastYear == 2020

IsLeap(y) == (y % 4 = 0 /\ y % 100 # 0) \/ y % 400 = 0

DaysIn(y, m) == IF m = 2 THEN (IF IsLeap(y) THEN 29 ELSE 28)
                ELSE IF m \in {4, 6, 9, 11} THEN 30 ELSE 31

Pad2(n) == <<DigitChars[(n \div 10) + 1], DigitChars[(n % 10) + 1]>>

Pad4(n) == Pad2(n \div 100) \o Pad2(n % 100)

\* the text of a date cell
DateText(y, m, d) == Pad4(y) \o <<"-">> \o Pad2(m) \o <<"-">> \o Pad2(d)

\* dateutil's parse(text).date() on a "y-m-d" text: the date, or ParserError
\* when a component is out of range
ParserError == [error |-> "ParserError"]

Parse(text) ==
    LET parts == Split(text, <<"-">>)
        y == IntOf(parts[1])
        m == IntOf(parts[2])
        d == IntOf(parts[3])
    IN IF m \in 1..12 /\ d \in 1..DaysIn(y, m)
       THEN [year |-> y, month |-> m, day |-> d]
       ELSE ParserError

\* mutant: the fallback replaces only a zero month
RaceDateMonthOnly(text) ==
    IF Parse(text) # ParserError THEN Parse(text)
    ELSE LET parts == Split(text, <<"-">>)
             month == IF IntOf(parts[2]) = 0 THEN <<"0", "1">> ELSE parts[2]
         IN Parse(parts[1] \o <<"-">> \o month \o <<"-">> \o parts[3])

\* RiderResult.__init__, "Parse race date"
RaceDate(text) ==
    IF Parse(text) # ParserError THEN Parse(text)
    ELSE LET parts == Split(text, <<"-">>)
             year == parts[1]
             month == IF IntOf(parts[2]) = 0 THEN <<"0", "1">> ELSE parts[2]
             day == IF IntOf(parts[3]) = 0 THEN <<"0", "1">> ELSE parts[3]
             fixed_date == year \o <<"-">> \o month \o <<"-">> \o day
         IN Parse(fixed_date)

(***************************************************************************)
(* Result rows.  A row is the sequence of its td cells; a cell carries its *)
(* text, its links and its images.  A link is given by the parameters of   *)
(* its href (r: race id, e: stage number), an image by its src or by the   *)
(* stem of its file name.                                                  *)
(***************************************************************************)
MaxLinks == 3
MaxImgs == 3
MaxTokens == 3
MaxStage == 2
MaxRows == 2

Cell(text, links, imgs) == [text |-> text, links |-> links, imgs |-> imgs]

TextCell(text) == Cell(text, <<>>, <<>>)

\* utilities.race_link_to_race_id
race_link_to_race_id(a) == a.r

\* utilities.race_link_to_stage_num
race_link_to_stage_num(a) == a.e

\* utilities.img_to_country_code
img_to_country_code(img) == IF img = None THEN None ELSE Some(img[1].stem)

\* float(text) for digits with an optional fraction: num / 10^exp
ParseFloat(text) ==
    LET parts == Split(text, <<".">>)
    IN IF Len(parts) = 1 THEN [num |-> IntOf(parts[1]), exp |-> 0]
       ELSE [num |-> IntOf(parts[1] \o parts[2]), exp |-> Len(parts[2])]

\* the int 0 of "else 0"
Zero == [num |-> 0, exp |-> 0]

\* mutant: a missing points column is reported as zero
UciPointsZeroWhenMissing(uci) ==
    IF uci # None
    THEN Some(IF uci[1].text # <<"-">> THEN ParseFloat(uci[1].text) ELSE Zero)
    ELSE Some(Zero)

\* RiderResult.__init__: self.uci_points; uci is None for a 7-cell row
UciPoints(uci) ==
    IF uci # None
    THEN Some(IF uci[1].text # <<"-">> THEN ParseFloat(uci[1].text) ELSE Zero)
    ELSE None

\* RiderResult.__init__: self.full_name
FullName(race_td) ==
    Replace(Replace(Replace(Strip(race_td.text), "\n", <<" ">>), "\t", <<>>), "\r", <<>>)

\* RiderResult.__init__: tokens
Tokens(full_name) ==
    LET parts == Split(full_name, <<"|">>)
    IN [i \in 1..Len(parts) |-> Strip(parts[i])]

\* an exception leaving a constructor or a fragment, with the attributes
\* assigned before it; or the attributes assigned when it returns
Raised(exc, attrs) == [raised |-> Some(exc), attrs |-> attrs]

Returned(attrs) == [raised |-> None, attrs |-> attrs]

\* mutant: the stage number is read from the second link
RaceNameAttrsSecondLink(race_td) ==
    LET links == race_td.links
        imgs == race_td.imgs
        tokens == Tokens(FullName(race_td))
    IN IF Len(imgs) = 2
       THEN LET code == "edition_country_code" :> img_to_country_code(Some(imgs[2]))
            IN IF Len(tokens) < 2 THEN Raised("IndexError", code)
               ELSE Returned(code @@ ("edition_city" :> tokens[2]))
       ELSE IF Len(links) = 2
       THEN Returned("stage_num" :> race_link_to_stage_num(links[2]))
       ELSE IF Len(tokens) = 2
       THEN Returned("classification" :> tokens[2])
       ELSE Returned(NoAttrs)

\* RiderResult.__init__, lines 200-207: championship edition / stage /
\* classification.  Line 201 assigns edition_country_code, then line 202
\* reads tokens[1]: IndexError when the text has no "|".
RaceNameAttrs(race_td) ==
    LET links == race_td.links
        imgs == race_td.imgs
        tokens == Tokens(FullName(race_td))
    IN IF Len(imgs) = 2
       THEN LET code == "edition_country_code" :> img_to_country_code(Some(imgs[2]))
            IN IF Len(tokens) < 2 THEN Raised("IndexError", code)
               ELSE Returned(code @@ ("edition_city" :> tokens[2]))
       ELSE IF Len(links) = 2
       THEN Returned("stage_num" :> race_link_to_stage_num(links[1]))
       ELSE IF Len(tokens) = 2
       THEN Returned("classification" :> tokens[2])
       ELSE Returned(NoAttrs)

\* RiderResult.__init__(self, row): the attributes it assigns, and the
\* IndexError of links[0] (line 194), imgs[0] (line 196) or tokens[1]
\* (line 202) that ends it with the attributes assigned so far
RiderResult(row) ==
    IF Len(row) < 7 THEN Returned(NoAttrs)
    ELSE LET uci == IF Len(row) = 7 THEN None ELSE Some(row[8])
             result == row[3]
             gc_standing == row[4]
             icon == row[5]
             race_td == row[6]
             cat == row[7]
             full_name == FullName(race_td)
             upto190 ==
                ("date" :> RaceDate(row[1].text))
                @@ ("result" :> IF IsNumeric(result.text) THEN Some(IntOf(result.text))
                                ELSE result.text)
                @@ ("gc_standing" :> IF gc_standing.text # <<>>
                                     THEN Some(IntOf(gc_standing.text)) ELSE None)
                @@ ("icon" :> IF icon.imgs # <<>>
                              THEN Some(Last(Split(icon.imgs[1].src, <<"/">>))) ELSE None)
                @@ ("cat" :> cat.text)
                @@ ("uci_points" :> UciPoints(uci))
         IN IF race_td.links = <<>> THEN Raised("IndexError", upto190)
            ELSE LET upto194 == upto190
                        @@ ("race_id" :> race_link_to_race_id(race_td.links[1]))
                 IN IF race_td.imgs = <<>> THEN Raised("IndexError", upto194)
                    ELSE LET upto199 == upto194
                                @@ ("race_country_code" :>
                                        img_to_country_code(Some(race_td.imgs[1])))
                                @@ ("full_name" :> full_name)
                                @@ ("name" :> Tokens(full_name)[1])
                             variant == RaceNameAttrs(race_td)
                         IN [raised |-> variant.raised,
                             attrs |-> upto199 @@ variant.attrs]

\* RiderResultsTable.__init__(self, table): self.raw is assigned, then line 151
\* evaluates the name results_table, which neither the parameters nor the
\* module bind: NameError for every table, before self.results is assigned
RiderResultsTable(table) == Raised("NameError", "raw" :> table)

(***************************************************************************)
(* The rows of the model.                                                  *)
(***************************************************************************)
\* the links of a race-name cell name a race (r) and a stage (e)
AllLinks(e1, e2) == [i \in 1..MaxLinks |-> [r |-> 16 + i, e |-> IF i = 1 THEN e1 ELSE e2]]

AllImgs == [i \in 1..MaxImgs |-> [stem |-> <<"N", DigitChars[i + 1]>>]]

AllSegments == [i \in 1..MaxTokens |-> <<"S", DigitChars[i + 1]>>]

\* the two layouts of the "|" between the segments of a race name
Separators == {<<" ", "|", " ">>, <<"\n", "\t", "|", " ">>}

RaceCells ==
    {Cell(<<"\n">> \o Join(SubSeq(AllSegments, 1, nt), sep) \o <<" ">>,
          SubSeq(AllLinks(e1, e2), 1, nl), SubSeq(AllImgs, 1, ni)) :
        <<nl, ni, nt, e1, e2, sep>> \in
            {t \in (0..MaxLinks) \X (0..MaxImgs) \X (1..MaxTokens)
                     \X (1..MaxStage) \X (1..MaxStage) \X Separators :
                \* a single segment has no separator, and an absent link no stage
                /\ (t[3] = 1 => t[6] = <<" ", "|", " ">>)
                /\ (t[1] < 2 => t[5] = 1)
                /\ (t[1] < 1 => t[4] = 1)}}

UciTexts == {<<"-">>, <<"0">>, <<"7", ".", "5">>, <<"1", "2">>}

RowDateTexts == {DateText(LastYear, 3, 15), DateText(LastYear, 0, 0)}

\* finish position, GC standing and icon cells
PlacedCells == <<TextCell(<<"1">>), TextCell(<<"3">>),
                 Cell(<<>>, <<>>, <<[src |-> <<"i", "/", "a", ".", "p">>]>>)>>

UnplacedCells == <<TextCell(<<"D", "N", "F">>), TextCell(<<>>), TextCell(<<>>)>>

FullRow(dt, front, race, uciText) ==
    <<TextCell(dt), TextCell(dt)>> \o front
        \o <<race, TextCell(<<"2", ".", "1">>), TextCell(uciText)>>

\* rows of 0 to 8 cells
Rows == {SubSeq(FullRow(dt, front, race, u), 1, n) :
            <<dt, front, race, u, n>> \in
                RowDateTexts \X {PlacedCells, UnplacedCells} \X RaceCells \X UciTexts \X (0..8)}

PlainRace == Cell(<<"S", "1">>, SubSeq(AllLinks(1, 1), 1, 1), SubSeq(AllImgs, 1, 1))

TableRows == {SubSeq(FullRow(DateText(LastYear, 3, 15), front, PlainRace, <<"-">>), 1, n) :
                 <<front, n>> \in {PlacedCells, UnplacedCells} \X (0..8)}

RECURSIVE SeqsUpTo(_, _)
SeqsUpTo(S, n) == IF n = 0 THEN {<<>>}
                  ELSE LET shorter == SeqsUpTo(S, n - 1)
                       IN shorter \cup {Append(q, x) : q \in shorter, x \in S}

Tables == {None} \cup {Some(rows) : rows \in SeqsUpTo(TableRows, MaxRows)}

(***************************************************************************)
(* Race side panel (results.py fragment).  The panel is the key/value      *)
(* table: for each key present, the value text (details) and the images    *)
(* of its row (soup_details), each image with the text that follows it.    *)
(* The fragment is straight-line code: an exception ends it and the        *)
(* attributes assigned before it remain.  The panels of the model have     *)
(* the keys Nation, Where and What only.                                   *)
(***************************************************************************)
MaxDigits == 2
MaxFlags == 2

\* soup_details[key].img: the first image of the row, or None
FirstImg(tr) == IF tr.imgs = <<>> THEN None ELSE Some(tr.imgs[1])

Arrow == <<" ", "-", ">", " ">>

PrologueWord == <<"P", "r", "o", "l", "o", "g", "u", "e">>

\* ''.join([x for x in details['What'] if x.isnumeric()])
NumericChars(text) == SelectSeq(text, IsDigit)

\* "Get nation and start/end cities": the attributes, or the exception
NationAndCities(panel) ==
    LET keys == DOMAIN panel
    IN IF "Nation" \notin keys /\ "Where" \notin keys
       THEN Raised("KeyError", NoAttrs)
       ELSE
       LET lookup == IF "Nation" \in keys THEN "Nation" ELSE "Where"
           nation == img_to_country_code(FirstImg(panel[lookup]))
           parts == IF "Where" \in keys THEN Split(panel["Where"].value, Arrow) ELSE <<>>
           olympic == "Nation" \in keys /\ Len(panel["Nation"].imgs) > 1
           last == Last(panel["Nation"].imgs)
       IN IF "Where" \in keys /\ Contains(panel["Where"].value, Arrow) /\ Len(parts) # 2
          THEN Raised("ValueError", "nation" :> nation)
          ELSE Returned(
            IF olympic
            THEN ("nation" :> img_to_country_code(Some(last)))
                 @@ ("start_city" :> Some(Strip(last.next_sibling)))
                 @@ ("end_city" :> Some(Strip(last.next_sibling)))
            ELSE IF "Where" \in keys
            THEN ("nation" :> nation)
                 @@ ("start_city" :> Some(parts[1]))
                 @@ ("end_city" :> Some(Last(parts)))
            ELSE ("nation" :> nation)
                 @@ ("start_city" :> None)
                 @@ ("end_city" :> None))

\* "Get additional race information": self.stage_num, or the exception of int('')
StageNum(panel) ==
    IF "What" \notin DOMAIN panel THEN Returned("stage_num" :> None)
    ELSE LET what == panel["What"].value
             digits == NumericChars(what)
         IN IF digits = <<>> THEN Raised("ValueError", NoAttrs)
            ELSE IF Contains(what, PrologueWord) THEN Returned("stage_num" :> Some(0))
            ELSE Returned("stage_num" :> Some(IntOf(digits)))

\* "Get date" and distance, cat, for a panel with no Date, Distance or CAT key
DateDistanceCat ==
    ("start_date" :> None) @@ ("end_date" :> None)
        @@ ("distance" :> None) @@ ("cat" :> None)

\* "Find profile information" and "Classification leaders after stage", for a
\* panel with no Distance key, no image in its What row and no leader key
ProfileAndLeaders(panel) ==
    ("profile" :> None) @@ ("classification_leaders" :> NoAttrs)

\* the fragment from "Get nation and start/end cities" to the classification
\* leaders
RaceInfo(panel) ==
    LET first == NationAndCities(panel)
        second == StageNum(panel)
    IN IF first.raised # None THEN first
       ELSE IF second.raised # None
       THEN Raised(second.raised[1], DateDistanceCat @@ first.attrs)
       ELSE Returned(ProfileAndLeaders(panel) @@ second.attrs
                         @@ DateDistanceCat @@ first.attrs)

FlagImgs == [i \in 1..MaxFlags |->
                [stem |-> <<"N", DigitChars[i + 1]>>,
                 next_sibling |-> <<" ", "C", DigitChars[i + 1], "\n">>]]

NationRows == {[value |-> <<"N">>, imgs |-> SubSeq(FlagImgs, 1, n)] : n \in 0..MaxFlags}

WhereRows == {[value |-> v, imgs |-> SubSeq(FlagImgs, 1, n)] :
                 v \in {<<"P">>, <<"P">> \o Arrow \o <<"R">>}, n \in 0..1}

DigitTexts == UNION {[1..n -> {"0", "1", "5"}] : n \in 0..MaxDigits}

\* "Stage <n>", "Prologue" and "Prologue <n>"
WhatRows == {[value |-> <<"S", "t", "a", "g", "e", " ">> \o d, imgs |-> <<>>] :
                d \in DigitTexts \ {<<>>}}
            \cup {[value |-> w \o d, imgs |-> <<>>] :
                w \in {PrologueWord, PrologueWord \o <<" ">>}, d \in DigitTexts}

\* a key/value table with any of the keys Nation, Where, What
PanelOf(n, w, s) ==
    LET keys == (IF n = None THEN {} ELSE {"Nation"})
                \cup (IF w = None THEN {} ELSE {"Where"})
                \cup (IF s = None THEN {} ELSE {"What"})
    IN [k \in keys |-> IF k = "Nation" THEN n[1] ELSE IF k = "Where" THEN w[1] ELSE s[1]]

Optional(S) == {None} \cup {Some(x) : x \in S}

Panels == {PanelOf(n, w, s) : n \in Optional(NationRows),
                              w \in Optional(WhereRows),
                              s \in Optional(WhatRows)}

(***************************************************************************)
(* Derived flags of a result (results dataframe fragment), from the icon   *)
(* of the result, the list colour_icons and the table profile_icon_map.    *)
(***************************************************************************)
MaxIconLen == 3
MaxColourLen == 1
MaxColours == 2

\* Python's truth value of a text or None
Truthy(v) == v # None /\ v # Some(<<>>)

Upper(c) == CASE c = "a" -> "A" [] c = "b" -> "B" [] OTHER -> c

Lower(c) == CASE c = "A" -> "a" [] c = "B" -> "b" [] OTHER -> c

\* str.capitalize()
Capitalize(s) == [i \in 1..Len(s) |-> IF i = 1 THEN Upper(s[i]) ELSE Lower(s[i])]

\* the for loop over colour_icons with its break: the first token col with
\* (col + '.') in icon, capitalized; None when icon is falsy or nothing matches
JerseyColour(icon, colours) ==
    IF ~Truthy(icon) THEN None
    ELSE LET hits == {i \in 1..Len(colours) : Contains(icon[1], colours[i] \o <<".">>)}
         IN IF hits = {} THEN None
            ELSE Some(Capitalize(colours[CHOOSE i \in hits : \A j \in hits : i <= j]))

\* "if not series['jersey_colour']: if self.icon in profile_icon_map: ..."
Profile(icon, jersey_colour, map) ==
    IF ~Truthy(jersey_colour)
    THEN IF icon # None /\ icon[1] \in DOMAIN map THEN Some(map[icon[1]]) ELSE None
    ELSE None

\* Python's "a or b" for a and b each True, False or None
PyOr(a, b) == IF a = Some(TRUE) THEN a ELSE b

TextTTT == <<"T", "T", "T">>
TextITT == <<"I", "T", "T">>
TextMTF == <<" ", "M", "T", "F">>
TextMountain == <<"M", "o", "u", "n", "t", "a", "i", "n">>
TextHilly == <<"H", "i", "l", "l", "y">>
TextFlat == <<"F", "l", "a", "t">>
TextCobbles == <<"C", "o", "b", "b", "l", "e", "s">>

\* "<test> if series['profile'] else None"
IfProfile(profile, test) == IF Truthy(profile) THEN Some(test) ELSE None

\* the fragment from series['jersey_colour'] = None to series['cobbled']
DerivedFlags(icon, colours, map) ==
    LET jersey_colour == JerseyColour(icon, colours)
        profile == Profile(icon, jersey_colour, map)
        text == IF profile = None THEN <<>> ELSE profile[1]
        ttt == Some(profile = Some(TextTTT))
        itt == IfProfile(profile, Contains(text, TextITT))
    IN [jersey_colour |-> jersey_colour,
        profile |-> profile,
        ttt |-> ttt,
        itt |-> itt,
        tt |-> PyOr(itt, ttt),
        mtf |-> IfProfile(profile, EndsWith(text, TextMTF)),
        mountain |-> IfProfile(profile, Contains(text, TextMountain)),
        hilly |-> IfProfile(profile, Contains(text, TextHilly)),
        flat |-> IfProfile(profile, Contains(text, TextFlat)),
        cobbled |-> IfProfile(profile, Contains(text, TextCobbles))]

TextsUpTo(alphabet, n) == UNION {[1..k -> alphabet] : k \in 0..n}

\* file names of icons, or no icon
Icons == {None} \cup {Some(t) : t \in TextsUpTo({"a", "b", "."}, MaxIconLen)}

\* the entries of colour_icons: any text, the empty one included
ColourTokens == TextsUpTo({"a", "b"}, MaxColourLen)

ColourLists == SeqsUpTo(ColourTokens, MaxColours)

Profiles == {TextTTT, TextITT, TextMountain \o TextMTF, TextFlat}

\* profile tables with at most one icon
ProfileMaps == {NoAttrs} \cup {k :> p : k \in TextsUpTo({"a", "."}, 2), p \in Profiles}

(***************************************************************************)
(* Rider.get_details.  year_details maps a year to the RiderYear stored    *)
(* for it; loads counts, per year, the RiderYear objects stored under it.  *)
(* A list of years is a sequence: a year may occur in it more than once.   *)
(***************************************************************************)
LastSeason == 2020
MaxYears == 2
MaxLoads == 2

Seasons == 2019..LastSeason

\* soup.h1.text of the rider page
RiderName == <<"R">>

YearLists == SeqsUpTo(Seasons, MaxYears)

Range(xs) == {xs[i] : i \in 1..Len(xs)}

\* "for year in years: self.year_details[year] = RiderYear(self.ID, year)", up to
\* the n-th page fetch; rider is [year_details, loads]
RECURSIVE StoreYears(_, _, _)
StoreYears(rider, years, n) ==
    IF n = 0 \/ years = <<>> THEN rider
    ELSE LET year == Head(years)
             nth == rider.loads[year] + 1
             stored == [year |-> year, by_default |-> FALSE, nth |-> nth]
         IN StoreYears([year_details |-> (year :> stored) @@ rider.year_details,
                        loads |-> [rider.loads EXCEPT ![year] = nth]],
                       Tail(years), n - 1)

\* the date cells the site can write: every component is valid or zero
DateCells == {<<y, m, d>> \in (2019..LastYear) \X (0..12) \X (0..31) :
                 m # 0 /\ d # 0 => d <= DaysIn(y, m)}

VARIABLES
    date_text, date,        \* a date cell, and RiderResult's self.date for it
    row, record,            \* a result row, and the RiderResult built from it
    table, results,         \* a results table, and the outcome of RiderResultsTable(table)
    panel, info,            \* a race side panel, and the race attributes read from it
    icon, colour_icons, profile_icon_map, series,
                            \* a result's icon, the two static tables, the derived flags
    name, years_active, year_details,
                            \* the attributes of a Rider
    loads, overwritten, requested, call_raised
                            \* history of the Rider: RiderYear objects stored per year,
                            \* whether a call has passed overwrite=True, the years the
                            \* last call asked for, and whether it ended by an exception

dateVars == <<date_text, date>>
rowVars == <<row, record>>
tableVars == <<table, results>>
infoVars == <<panel, info>>
flagVars == <<icon, colour_icons, profile_icon_map, series>>
riderVars == <<name, years_active, year_details, loads, overwritten, requested,
              call_raised>>

vars == <<dateVars, rowVars, tableVars, infoVars, flagVars, riderVars>>

NoDate == date_text = <<>> /\ date = None
NoRow == row = <<>> /\ record = None
NoTable == table = None /\ results = None
NoPanel == panel = NoAttrs /\ info = None
NoFlags == icon = None /\ colour_icons = <<>> /\ profile_icon_map = NoAttrs /\ series = None

\* Rider.__init__
NewRider == /\ name = None
            /\ years_active = None
            /\ year_details = NoAttrs
            /\ loads = [y \in Seasons |-> 0]
            /\ overwritten = FALSE
            /\ requested = {}
            /\ call_raised = FALSE

(***************************************************************************)
(* The date of a result row.                                               *)
(***************************************************************************)
InitDate == /\ \E c \in DateCells : date_text = DateText(c[1], c[2], c[3])
            /\ date = None
            /\ NoRow /\ NoTable /\ NoPanel /\ NoFlags /\ NewRider

ParseRaceDate == /\ date_text # <<>> /\ date = None
                 /\ date' = Some(RaceDate(date_text))
                 /\ UNCHANGED <<date_text, rowVars, tableVars, infoVars, flagVars, riderVars>>

SpecDate == InitDate /\ [][ParseRaceDate]_vars

(***************************************************************************)
(* One result row.                                                         *)
(***************************************************************************)
InitRow == /\ row \in Rows
           /\ record = None
           /\ NoDate /\ NoTable /\ NoPanel /\ NoFlags /\ NewRider

BuildRiderResult == /\ record = None
                    /\ record' = Some(RiderResult(row))
                    /\ UNCHANGED <<row, dateVars, tableVars, infoVars, flagVars, riderVars>>

SpecRow == InitRow /\ [][BuildRiderResult]_vars

(***************************************************************************)
(* A results table.                                                        *)
(***************************************************************************)
InitTable == /\ table \in Tables
             /\ results = None
             /\ NoDate /\ NoRow /\ NoPanel /\ NoFlags /\ NewRider

BuildRiderResultsTable ==
    /\ results = None
    /\ results' = Some(RiderResultsTable(table))
    /\ UNCHANGED <<table, dateVars, rowVars, infoVars, flagVars, riderVars>>

SpecTable == InitTable /\ [][BuildRiderResultsTable]_vars

(***************************************************************************)
(* The side panel of a race.                                               *)
(***************************************************************************)
InitInfo == /\ panel \in Panels
            /\ info = None
            /\ NoDate /\ NoRow /\ NoTable /\ NoFlags /\ NewRider

ReadRaceInfo == /\ info = None
                /\ info' = Some(RaceInfo(panel))
                /\ UNCHANGED <<panel, dateVars, rowVars, tableVars, flagVars, riderVars>>

SpecInfo == InitInfo /\ [][ReadRaceInfo]_vars

(***************************************************************************)
(* The derived flags of a result.                                          *)
(***************************************************************************)
InitFlags == /\ icon \in Icons
             /\ colour_icons \in ColourLists
             /\ profile_icon_map \in ProfileMaps
             /\ series = None
             /\ NoDate /\ NoRow /\ NoTable /\ NoPanel /\ NewRider

DeriveFlags ==
    /\ series = None
    /\ series' = Some(DerivedFlags(icon, colour_icons, profile_icon_map))
    /\ UNCHANGED <<icon, colour_icons, profile_icon_map,
                   dateVars, rowVars, tableVars, infoVars, riderVars>>

SpecFlags == InitFlags /\ [][DeriveFlags]_vars

(***************************************************************************)
(* A Rider and its get_details calls.  years is the years argument (<<>>   *)
(* for None or an empty list); default_year and page_years are what the    *)
(* rider page fetched by RiderYear(self.ID) reports; fetched is the number *)
(* of page fetches of the call that succeed, the next one raising.  The    *)
(* program has one thread: a call is one step, and a call that raises      *)
(* leaves what it stored before.                                           *)
(***************************************************************************)
InitRider == NewRider /\ NoDate /\ NoRow /\ NoTable /\ NoPanel /\ NoFlags

GetDetails(years, overwrite, default_year, page_years, fetched) ==
    LET first_request == years = <<>> /\ ~Truthy(name)
        details == [year |-> default_year, by_default |-> TRUE,
                    nth |-> loads[default_year] + 1]
        year_details1 == IF first_request
                         THEN (default_year :> details) @@ year_details
                         ELSE year_details
        loads1 == IF first_request
                  THEN [loads EXCEPT ![default_year] = @ + 1]
                  ELSE loads
        years_active1 == IF first_request THEN Some(page_years) ELSE years_active
        years1 == IF years = <<>> THEN years_active1[1] ELSE years
        years2 == IF ~overwrite
                  THEN SelectSeq(years1, LAMBDA y : y \notin DOMAIN year_details1)
                  ELSE years1
        left == fetched - (IF first_request THEN 1 ELSE 0)
        after == StoreYears([year_details |-> year_details1, loads |-> loads1],
                            years2, left)
    IN IF first_request /\ fetched = 0
       THEN \* RiderYear(self.ID) raises: nothing is assigned
            /\ call_raised' = TRUE
            /\ requested' = {}
            /\ overwritten' = (overwritten \/ overwrite)
            /\ UNCHANGED <<name, years_active, year_details, loads>>
            /\ UNCHANGED <<dateVars, rowVars, tableVars, infoVars, flagVars>>
       ELSE /\ \A y \in Seasons : after.loads[y] <= MaxLoads
            /\ name' = IF first_request THEN Some(RiderName) ELSE name
            /\ years_active' = years_active1
            /\ year_details' = after.year_details
            /\ loads' = after.loads
            /\ overwritten' = (overwritten \/ overwrite)
            /\ requested' = Range(years1)
            /\ call_raised' = (left < Len(years2))
            /\ UNCHANGED <<dateVars, rowVars, tableVars, infoVars, flagVars>>

CallGetDetails ==
    \E years \in YearLists, overwrite \in BOOLEAN,
       default_year \in Seasons, page_years \in YearLists, fetched \in 0..(MaxYears + 1) :
        GetDetails(years, overwrite, default_year, page_years, fetched)

SpecRider == InitRider /\ [][CallGetDetails]_vars

(***************************************************************************)
(* Properties.                                                             *)
(***************************************************************************)
VariantAttrs == {"edition_country_code", "edition_city", "stage_num", "classification"}

\* C1 as claimed: a row of fewer than 7 cells gives a RiderResult with no
\* attribute and is left out of RiderResultsTable's results; the rows of 7 or
\* 8 cells are all kept, in order; nothing is raised.
CX_C1 ==
    results # None =>
        LET rows == IF table = None THEN <<>> ELSE table[1]
            kept == SelectSeq(rows, LAMBDA r : Len(r) >= 7)
        IN /\ \A i \in 1..Len(rows) : Len(rows[i]) < 7 => DOMAIN RiderResult(rows[i]).attrs = {}
           /\ results[1].raised = None
           /\ "results" \in DOMAIN results[1].attrs
           /\ Len(results[1].attrs["results"]) = Len(kept)
           /\ \A i \in 1..Len(kept) : results[1].attrs["results"][i] = RiderResult(kept[i])

\* C2: a 7-cell row has uci_points None; an 8-cell row has uci_points present:
\* zero when the eighth cell reads "-", else the float its text denotes.
\* (Line 190 assigns it before any line of the constructor that can raise.)
Thm_C2 ==
    record # None /\ Len(row) >= 7 =>
        LET points == record[1].attrs["uci_points"]
        IN /\ Len(row) = 7 => points = None
           /\ Len(row) = 8 =>
                /\ points # None
                /\ row[8].text = <<"-">> => points[1] = Zero
                /\ row[8].text # <<"-">> => points[1] = ParseFloat(row[8].text)
                /\ row[8].text = <<"7", ".", "5">> => points[1] = [num |-> 75, exp |-> 1]
                /\ row[8].text = <<"1", "2">> => points[1] = [num |-> 12, exp |-> 0]

Wit_C2 == /\ record # None /\ Len(row) = 7
          /\ record[1].raised = None
          /\ record[1].attrs["uci_points"] = None

\* C3 as claimed, for a race-name cell with a link and an image (so that
\* lines 194 and 196 pass): 2 images give the edition attributes only; else
\* 2 links give stage_num only; else a second "|" segment gives
\* classification only; else none of them.
CX_C3 ==
    record # None /\ Len(row) >= 7 /\ row[6].links # <<>> /\ row[6].imgs # <<>> =>
        LET race_td == row[6]
            set == DOMAIN record[1].attrs \cap VariantAttrs
            segments == Len(Split(race_td.text, <<"|">>))
        IN /\ Len(race_td.imgs) = 2 => set = {"edition_country_code", "edition_city"}
           /\ Len(race_td.imgs) # 2 /\ Len(race_td.links) = 2 => set = {"stage_num"}
           /\ Len(race_td.imgs) # 2 /\ Len(race_td.links) # 2 /\ segments >= 2
                => set = {"classification"}
           /\ Len(race_td.imgs) # 2 /\ Len(race_td.links) # 2 /\ segments < 2
                => set = {}

\* C4 as claimed: for every list of colour tokens, jersey_colour and profile
\* are never both present; profile is present only when no colour token
\* matched the icon.
CX_C4 ==
    series # None =>
        /\ ~(series[1].jersey_colour # None /\ series[1].profile # None)
        /\ series[1].profile # None =>
              \A i \in 1..Len(colour_icons) :
                  ~Contains(icon[1], colour_icons[i] \o <<".">>)

\* C5 as claimed: tt is absent when itt is absent and ttt is False; tt is True
\* when itt is False and ttt is True; a True on either side makes tt True.
CX_C5 ==
    series # None =>
        /\ series[1].itt = None /\ series[1].ttt = Some(FALSE) => series[1].tt = None
        /\ series[1].itt = Some(FALSE) /\ series[1].ttt = Some(TRUE)
              => series[1].tt = Some(TRUE)
        /\ series[1].itt = Some(TRUE) \/ series[1].ttt = Some(TRUE)
              => series[1].tt = Some(TRUE)

\* C6: a "year-month-day" cell always resolves to a date: a zero month or day
\* becomes 1, no other component changes, no ParserError comes out.
Thm_C6 ==
    date # None =>
        LET parts == Split(date_text, <<"-">>)
            y == IntOf(parts[1])
            m == IntOf(parts[2])
            d == IntOf(parts[3])
        IN /\ date[1] # ParserError
           /\ date[1] = [year |-> y,
                         month |-> IF m = 0 THEN 1 ELSE m,
                         day |-> IF d = 0 THEN 1 ELSE d]

Wit_C6 == /\ date_text = <<"2", "0", "2", "0", "-", "0", "0", "-", "0", "0">>
          /\ date = Some([year |-> 2020, month |-> 1, day |-> 1])

\* C7 as claimed, for a panel whose nation was read: with "What" present the
\* stage number is the integer of its numeric characters, or 0 when it holds
\* "Prologue", digits or not, and nothing is raised; without "What" it is None.
CX_C7 ==
    info # None /\ info[1].raised # Some("KeyError") =>
        IF "What" \in DOMAIN panel
        THEN LET what == panel["What"].value
             IN /\ info[1].raised = None
                /\ info[1].attrs["stage_num"] =
                      IF Contains(what, PrologueWord) THEN Some(0)
                      ELSE Some(IntOf(NumericChars(what)))
        ELSE info[1].raised = None /\ info[1].attrs["stage_num"] = None

\* C8 as claimed: with neither "Nation" nor "Where" nothing is raised and
\* nation, start_city and end_city are None; with "Nation" (one image) and no
\* "Where" the cities are None and the nation is that of the image.
CX_C8 ==
    info # None =>
        LET keys == DOMAIN panel
            attrs == info[1].attrs
        IN /\ "Nation" \notin keys /\ "Where" \notin keys =>
                /\ info[1].raised = None
                /\ attrs["nation"] = None
                /\ attrs["start_city"] = None
                /\ attrs["end_city"] = None
           /\ "Nation" \in keys /\ "Where" \notin keys /\ Len(panel["Nation"].imgs) = 1 =>
                /\ attrs["nation"] = Some(panel["Nation"].imgs[1].stem)
                /\ attrs["start_city"] = None
                /\ attrs["end_city"] = None

CX_C10 ==
    /\ ~overwritten => \A y \in Seasons : loads[y] <= 1
    /\ ~call_raised => requested \subseteq DOMAIN year_details
====
